---------------------------- MODULE Spec2Model ----------------------------
(***************************************************************************)
(* A model of fabfile.py: the gated writer write_file, the filter builder  *)
(* build_find_command and the fabric tasks built from them.                *)
(*                                                                         *)
(* Strings are ropes: sequences of non-empty atoms whose concatenation is  *)
(* the Python string.  The working root (CW_DIR or ROOT_DIR, chosen by the *)
(* cwd flag) is one directory; fs maps the paths the tasks touch below it  *)
(* to their entries.  A task is a function from the state before it to the *)
(* state after it, threading a record [fs, tr, exc]: the filesystem, the   *)
(* trace of what the task did so far, and the pending exception ("" when   *)
(* none).  External processes that are not plain file commands (mkdir, rm) *)
(* succeed or fail as the task's _ok arguments say.  The only failure of a *)
(* file operation that                                                     *)
(* is modelled is the one the kind of the entry at its path decides; I/O   *)
(* faults (permissions, a missing parent directory, a full disk) are not.  *)
(* LOGGER.debug lines are not modelled, nor is the debug flag where it     *)
(* only sets the log level (analyse, autoformat, check_types).             *)
(***************************************************************************)
EXTENDS Naturals, Sequences, FiniteSets

VARIABLES
    dirname,   \* os.path.basename(working_dir), a rope of characters
    fs,        \* the filesystem below the working root: path -> entry
    pre,       \* fs as it was when the last invocation started
    call,      \* the last invocation: [op, ...arguments]
    trace,     \* what the last invocation did, in order
    raised,    \* the exception the last invocation ended with, "" when none
    find       \* the filter builder's last result (SpecFind)

vars == <<dirname, fs, pre, call, trace, raised, find>>

---------------------------------------------------------------------------
(* Bounds *)

\* longest content handed to write_file in SpecWrite, in atoms
MaxContentLen == 2
\* longest include_files / exclude_files list in SpecFind
MaxFilePatterns == 2
\* longest include_dirs / exclude_dirs list in SpecFind
MaxDirPatterns == 1

---------------------------------------------------------------------------
(* Ropes *)

RECURSIVE Join(_, _)
\* sep.join(parts), parts a sequence of ropes
Join(parts, sep) ==
    IF parts = <<>> THEN <<>>
    ELSE IF Len(parts) = 1 THEN parts[1]
    ELSE parts[1] \o sep \o Join(Tail(parts), sep)

RECURSIVE Flatten(_)
Flatten(parts) ==
    IF parts = <<>> THEN <<>> ELSE parts[1] \o Flatten(Tail(parts))

\* the atoms that are whitespace
IsSpace(a) == a \in {" ", "\n", "    "}

RECURSIVE LStrip(_)
LStrip(r) == IF r # <<>> /\ IsSpace(r[1]) THEN LStrip(Tail(r)) ELSE r

RECURSIVE RStrip(_)
RStrip(r) ==
    IF r # <<>> /\ IsSpace(r[Len(r)]) THEN RStrip(SubSeq(r, 1, Len(r) - 1)) ELSE r

\* str.strip()
Strip(r) == RStrip(LStrip(r))

\* textwrap.dedent on a text whose lines all carry the margin "    ": the
\* margin atom is dropped wherever it starts a line
dedent(r) ==
    LET keep(i) == ~(r[i] = "    " /\ (i = 1 \/ r[i - 1] = "\n"))
        F[i \in 0..Len(r)] ==
            IF i = 0 THEN <<>>
            ELSE IF keep(i) THEN Append(F[i - 1], r[i]) ELSE F[i - 1]
    IN F[Len(r)]

Lowers == <<"a", "b", "c", "d", "e", "f", "g", "h", "i", "j", "k", "l", "m",
            "n", "o", "p", "q", "r", "s", "t", "u", "v", "w", "x", "y", "z">>
Uppers == <<"A", "B", "C", "D", "E", "F", "G", "H", "I", "J", "K", "L", "M",
            "N", "O", "P", "Q", "R", "S", "T", "U", "V", "W", "X", "Y", "Z">>

IsLower(c) == \E i \in DOMAIN Lowers : Lowers[i] = c
IsUpper(c) == \E i \in DOMAIN Uppers : Uppers[i] = c
IsCased(c) == IsLower(c) \/ IsUpper(c)
ToUpper(c) == IF IsLower(c) THEN Uppers[CHOOSE i \in DOMAIN Lowers : Lowers[i] = c] ELSE c
ToLower(c) == IF IsUpper(c) THEN Lowers[CHOOSE i \in DOMAIN Uppers : Uppers[i] = c] ELSE c

\* str.replace(old, new) for single characters
Replace(r, old, new) == [i \in DOMAIN r |-> IF r[i] = old THEN new ELSE r[i]]

\* str.capitalize() in place of str.title()
Capitalize(r) ==
    [i \in DOMAIN r |-> IF i = 1 THEN ToUpper(r[i]) ELSE ToLower(r[i])]

\* str.title(): a cased character is upper-cased when it follows an uncased
\* character (or starts the string) and lower-cased otherwise
Title(r) ==
    [i \in DOMAIN r |->
        IF i = 1 \/ ~IsCased(r[i - 1]) THEN ToUpper(r[i]) ELSE ToLower(r[i])]

\* Template.substitute(title=...)
Substitute(r, value) ==
    Flatten([i \in DOMAIN r |-> IF r[i] = "$title" THEN value ELSE <<r[i]>>])

\* str.format(arg) on a text with one "{}"
Format(r, arg) ==
    Flatten([i \in DOMAIN r |-> IF r[i] = "{}" THEN arg ELSE <<r[i]>>])

\* the text before the first newline
FirstLine(r) ==
    IF \E i \in DOMAIN r : r[i] = "\n"
    THEN SubSeq(r, 1, (CHOOSE i \in DOMAIN r :
                          r[i] = "\n" /\ \A j \in 1..(i - 1) : r[j] # "\n") - 1)
    ELSE r

---------------------------------------------------------------------------
(* DefaultValue *)

ENV_NAME == "env"
REQ_FILE == "requirements.txt"
README_FILE == "README.md"
HEADERS == Join(<< <<"#", " ", "$title">>, <<>>, <<"## Reference">> >>, <<"\n">>)
PYLINTRC_FILE == ".pylintrc"
PYLINTRC_CONTENT ==
    <<"\n", "    ", "[MAIN]", "\n",
      "    ", "init-hook='import sys; sys.path.append(\"", "{}", "\")'", "\n",
      "    ">>
MYPY_FILE == "mypy.ini"
MYPY_CONTENT ==
    <<"\n", "    ", "[mypy]", "\n",
      "    ", "ignore_missing_imports = True", "\n",
      "    ", "explicit_package_bases = True", "\n",
      "    ">>
TESTS_DIRS == <<"tests">>
DEPTH == 2
PACKAGES == <<"coloredlogs", "decorator", "fabric", "black", "pylint", "pytest", "mypy">>
INCLUDE_FILES == <<"'*.py'">>
EXCLUDE_FILES == <<"'draft.py'">>
EXCLUDE_DIRS == <<"'**/__pycache__/*'", "'**/_build/*'", "'**/env/*'">>

---------------------------------------------------------------------------
(* The filesystem below the working root *)

\* os.path.join(working_dir, dirname) and the initializer inside it
SUBDIR == "{dirname}"
INIT_FILE == "{dirname}/__init__.py"

Paths == {SUBDIR, INIT_FILE, README_FILE, REQ_FILE, PYLINTRC_FILE, ENV_NAME,
          MYPY_FILE, "tests"}

Absent == [kind |-> "none", content |-> <<>>]
Directory == [kind |-> "dir", content |-> <<>>]
File(content) == [kind |-> "file", content |-> content]

\* what a file that was there before any task ran holds
OLD == <<"old", "\n">>

isdir(f, path) == f[path].kind = "dir"
isfile(f, path) == f[path].kind = "file"

---------------------------------------------------------------------------
(* The state a task threads, and its trace *)

Ev(k, a, b, c) == [k |-> k, a |-> a, b |-> b, c |-> c]

Begin(f) == [fs |-> f, tr |-> <<>>, exc |-> ""]
Emit(s, e) == [s EXCEPT !.tr = Append(@, e)]
Raise(s, exception) == [s EXCEPT !.exc = exception]
\* LOGGER.info(message, subject)
Info(s, message, subject) == Emit(s, Ev("log", message, subject, ""))

---------------------------------------------------------------------------
(* write_file *)

write_file_overwrites(s, file_path, content, additional_msg) ==
    LET s1 == Emit(s, Ev("write_file", file_path, "", additional_msg))
        written == IF content # <<>> THEN content \o <<"\n">> ELSE content
    IN  IF s1.fs[file_path].kind = "dir" THEN Raise(s1, "IsADirectoryError")
        ELSE Emit([s1 EXCEPT !.fs[file_path] = File(written)],
                  Ev("log", "Create successfully file %s", file_path, additional_msg))

write_file_no_newline(s, file_path, content, additional_msg) ==
    LET s1 == Emit(s, Ev("write_file", file_path, "", additional_msg))
    IN  IF isfile(s1.fs, file_path)
        THEN Emit(s1, Ev("log", "File %s already exists", file_path, additional_msg))
        ELSE IF s1.fs[file_path].kind = "dir" THEN Raise(s1, "IsADirectoryError")
        ELSE Emit([s1 EXCEPT !.fs[file_path] = File(content)],
                  Ev("log", "Create successfully file %s", file_path, additional_msg))

\* the message names the file as additional_msg file_path: both are kept in
\* the log event
write_file(s, file_path, content, additional_msg) ==
    LET s1 == Emit(s, Ev("write_file", file_path, "", additional_msg))
        written == IF content # <<>> THEN content \o <<"\n">> ELSE content
    IN  IF isfile(s1.fs, file_path)
        THEN Emit(s1, Ev("log", "File %s already exists", file_path, additional_msg))
        \* open(file_path, "w"): fails on a directory, else creates the file
        ELSE IF s1.fs[file_path].kind = "dir" THEN Raise(s1, "IsADirectoryError")
        ELSE Emit([s1 EXCEPT !.fs[file_path] = File(written)],
                  Ev("log", "Create successfully file %s", file_path, additional_msg))

---------------------------------------------------------------------------
(* An invocation: the state after it *)

Invoke(c, r) ==
    /\ fs' = r.fs
    /\ pre' = fs
    /\ call' = c
    /\ trace' = r.tr
    /\ raised' = r.exc
    /\ UNCHANGED <<dirname, find>>

NoCall == [op |-> "none"]
NoFind == [args |-> <<>>, cmd |-> <<>>, called |-> FALSE]

\* filesystems a working root can hold: the initializer is there only inside
\* a directory
WellFormed(f) == f[INIT_FILE].kind # "none" => f[SUBDIR].kind = "dir"

---------------------------------------------------------------------------
(* SpecWrite: write_file on its own *)

Atoms == {"a", "\n"}
Contents == UNION {[1..n -> Atoms] : n \in 0..MaxContentLen}
\* paths directly below the working root
WritePaths == {README_FILE, MYPY_FILE}
Labels == {"", "README"}

InitWrite ==
    /\ dirname = <<"a", "p", "p">>
    /\ fs \in {f \in [Paths -> {Absent, Directory, File(OLD)}] :
                 /\ WellFormed(f)
                 /\ \A p \in Paths \ WritePaths : f[p] = Absent}
    /\ pre = fs
    /\ call = NoCall
    /\ trace = <<>>
    /\ raised = ""
    /\ find = NoFind

WriteFileCall ==
    \E p \in WritePaths, c \in Contents, l \in Labels :
        Invoke([op |-> "write_file", path |-> p, content |-> c, label |-> l],
               write_file(Begin(fs), p, c, l))

NextWrite == WriteFileCall

SpecWrite == InitWrite /\ [][NextWrite]_vars

---------------------------------------------------------------------------
(* Claims about write_file (SpecWrite) *)

WroteLast == call.op = "write_file"
Logged(message, subject) ==
    \E i \in DOMAIN trace :
        trace[i].k = "log" /\ trace[i].a = message /\ trace[i].b = subject

\* C1: write_file on a path that already exists, whatever kind of entry it
\* is, writes nothing, reports "already exists" and returns normally.
C1_ExistingPathUntouched ==
    (WroteLast /\ pre[call.path].kind # "none") =>
        /\ fs = pre
        /\ raised = ""
        /\ Logged("File %s already exists", call.path)

\* C2: write_file on a path that does not exist creates the file with the
\* content followed by one newline, or empty when the content is empty,
\* reports "created" and changes no other path.
C2_AbsentPathCreated ==
    (WroteLast /\ pre[call.path].kind = "none") =>
        /\ raised = ""
        /\ fs[call.path] =
             File(IF call.content = <<>> THEN <<>> ELSE call.content \o <<"\n">>)
        /\ \A q \in Paths \ {call.path} : fs[q] = pre[q]
        /\ Logged("Create successfully file %s", call.path)
        /\ ~Logged("File %s already exists", call.path)

\* a content that already ends with a newline was written, with one more
C2_Witness ==
    /\ WroteLast
    /\ pre[call.path].kind = "none"
    /\ call.content = <<"a", "\n">>
    /\ fs[call.path] = File(<<"a", "\n", "\n">>)

---------------------------------------------------------------------------
(* build_find_command *)

\* Optional[List[str]]
None == [some |-> FALSE, v |-> <<>>]
Some(l) == [some |-> TRUE, v |-> l]
\* "if x:" on an optional list
Truthy(x) == x.some /\ x.v # <<>>

\* each string of a list as a rope
AsRopes(l) == [i \in DOMAIN l |-> <<l[i]>>]

\* re.sub(r"\s+", " ", r)
CollapseSpaces(r) ==
    LET F[i \in 0..Len(r)] ==
            IF i = 0 THEN <<>>
            ELSE IF IsSpace(r[i])
                 THEN IF i > 1 /\ IsSpace(r[i - 1]) THEN F[i - 1]
                      ELSE Append(F[i - 1], " ")
                 ELSE Append(F[i - 1], r[i])
    IN F[Len(r)]

build_find_command_no_exclude(include_files, exclude_files, include_dirs, exclude_dirs) ==
    LET name_searching == <<" ", "-name", " ">>
        not_path == <<" ", "!", " ", "-path", " ">>
        include_files_syntax ==
            IF Truthy(include_files)
            THEN name_searching \o <<" ">> \o Join(AsRopes(include_files.v), name_searching)
            ELSE <<>>
        include_dirs_syntax ==
            IF Truthy(include_dirs) THEN Join(AsRopes(include_dirs.v), <<" ">>) ELSE <<>>
        exclude_dirs_syntax ==
            IF Truthy(exclude_dirs)
            THEN not_path \o <<" ">> \o Join(AsRopes(exclude_dirs.v), not_path)
            ELSE <<>>
    IN  CollapseSpaces(<<"find", " ">> \o include_dirs_syntax \o <<" ">>
                       \o exclude_dirs_syntax \o include_files_syntax
                       \o <<" ", "-type", " ", "f">>)

build_find_command(include_files, exclude_files, include_dirs, exclude_dirs) ==
    LET name_searching == <<" ", "-name", " ">>
        not_path == <<" ", "!", " ", "-path", " ">>
        not_files == <<" ", "!", " ", "-name", " ">>
        include_files_syntax ==
            IF Truthy(include_files)
            THEN name_searching \o <<" ">> \o Join(AsRopes(include_files.v), name_searching)
            ELSE <<>>
        exclude_files_syntax ==
            IF Truthy(exclude_files)
            THEN not_files \o <<" ">> \o Join(AsRopes(exclude_files.v), not_files)
            ELSE <<>>
        include_dirs_syntax ==
            IF Truthy(include_dirs) THEN Join(AsRopes(include_dirs.v), <<" ">>) ELSE <<>>
        exclude_dirs_syntax ==
            IF Truthy(exclude_dirs)
            THEN not_path \o <<" ">> \o Join(AsRopes(exclude_dirs.v), not_path)
            ELSE <<>>
        find_cmd ==
            <<"find", " ">> \o include_dirs_syntax \o <<" ">> \o exclude_dirs_syntax
            \o include_files_syntax \o <<" ">> \o exclude_files_syntax
            \o <<" ", "-type", " ", "f">>
    IN  CollapseSpaces(find_cmd)

---------------------------------------------------------------------------
(* What find does with the expression: the search tool's semantics *)

\* the entries of a sample tree: the directory below the working root ("."
\* for the root itself), the name and the type
Entries ==
    { [dir |-> ".", name |-> "a.py", type |-> "f"],
      [dir |-> ".", name |-> "draft.py", type |-> "f"],
      [dir |-> ".", name |-> "notes.txt", type |-> "f"],
      [dir |-> ".", name |-> "pkg.py", type |-> "d"],
      [dir |-> "env", name |-> "site.py", type |-> "f"],
      [dir |-> "__pycache__", name |-> "a.pyc", type |-> "f"],
      [dir |-> "tests", name |-> "test_a.py", type |-> "f"],
      [dir |-> "tests", name |-> "draft.py", type |-> "f"] }

\* fnmatch of a name against a (shell-quoted) pattern
NameMatches(pattern, name) ==
    CASE pattern = "'*.py'" -> name \in {"a.py", "draft.py", "pkg.py", "site.py", "test_a.py"}
      [] pattern = "'draft.py'" -> name = "draft.py"
      [] pattern = "'*.txt'" -> name = "notes.txt"
      [] OTHER -> FALSE

\* fnmatch of the path find prints for an entry against a pattern
PathMatches(pattern, e) ==
    CASE pattern = "'**/env/*'" -> e.dir = "env"
      [] pattern = "'**/__pycache__/*'" -> e.dir = "__pycache__"
      [] pattern = "'**/_build/*'" -> e.dir = "_build"
      [] OTHER -> FALSE

\* the words of a command line
Words(cmd) == SelectSeq(cmd, LAMBDA a : ~IsSpace(a))

IsExpressionWord(w) == w \in {"!", "-name", "-path", "-type"}

\* the starting points: the words between "find" and the expression
RECURSIVE StartWords(_)
StartWords(ws) ==
    IF ws = <<>> \/ IsExpressionWord(ws[1]) THEN <<>>
    ELSE <<ws[1]>> \o StartWords(Tail(ws))

Primary(test, arg, e) ==
    CASE test = "-name" -> NameMatches(arg, e.name)
      [] test = "-path" -> PathMatches(arg, e)
      [] test = "-type" -> e.type = arg
      [] OTHER -> FALSE

\* adjacent tests are conjoined; "!" negates the test after it
RECURSIVE Holds(_, _)
Holds(ws, e) ==
    IF ws = <<>> THEN TRUE
    ELSE IF ws[1] = "!"
    THEN ~Primary(ws[2], ws[3], e) /\ Holds(SubSeq(ws, 4, Len(ws)), e)
    ELSE Primary(ws[1], ws[2], e) /\ Holds(SubSeq(ws, 3, Len(ws)), e)

\* an entry is visited when it lies below a starting point (the working
\* root when none is given)
Visited(cmd, e) ==
    LET starts == StartWords(Tail(Words(cmd)))
    IN  starts = <<>> \/ \E i \in DOMAIN starts : starts[i] = e.dir

Selects(cmd, e) ==
    LET ws == Tail(Words(cmd))
        starts == StartWords(ws)
    IN  Visited(cmd, e) /\ Holds(SubSeq(ws, Len(starts) + 1, Len(ws)), e)

---------------------------------------------------------------------------
(* SpecFind: build_find_command on its own *)

FilePatterns == {"'*.py'", "'draft.py'", "'*.txt'"}
DirStarts == {"tests"}
DirPatterns == {"'**/env/*'", "'**/__pycache__/*'"}

Lists(S, n) == UNION {[1..k -> S] : k \in 0..n}
Optional(S, n) == {None} \cup {Some(l) : l \in Lists(S, n)}

FindArgs ==
    [include_files : Optional(FilePatterns, MaxFilePatterns),
     exclude_files : Optional(FilePatterns, MaxFilePatterns),
     include_dirs : Optional(DirStarts, MaxDirPatterns),
     exclude_dirs : Optional(DirPatterns, MaxDirPatterns)]

InitFind ==
    /\ dirname = <<"a", "p", "p">>
    /\ fs = [p \in Paths |-> Absent]
    /\ pre = fs
    /\ call = NoCall
    /\ trace = <<>>
    /\ raised = ""
    /\ find \in {[args |-> a, cmd |-> <<>>, called |-> FALSE] : a \in FindArgs}

BuildFindCall ==
    /\ ~find.called
    /\ find' = [find EXCEPT
                  !.cmd = build_find_command(find.args.include_files,
                                             find.args.exclude_files,
                                             find.args.include_dirs,
                                             find.args.exclude_dirs),
                  !.called = TRUE]
    /\ UNCHANGED <<dirname, fs, pre, call, trace, raised>>

NextFind == BuildFindCall

SpecFind == InitFind /\ [][NextFind]_vars

---------------------------------------------------------------------------
(* Claims about build_find_command (SpecFind) *)

InList(x, p) == \E i \in DOMAIN x.v : x.v[i] = p

\* what the documentation says the expression selects
DocumentedSelection(a, e) ==
    /\ e.type = "f"
    /\ Truthy(a.include_files) =>
          \E i \in DOMAIN a.include_files.v : NameMatches(a.include_files.v[i], e.name)
    /\ \A i \in DOMAIN a.exclude_files.v : ~NameMatches(a.exclude_files.v[i], e.name)
    /\ \A i \in DOMAIN a.exclude_dirs.v : ~PathMatches(a.exclude_dirs.v[i], e)

\* C6: the expression selects a visited entry exactly when it is a regular
\* file whose name matches at least one include pattern (when any is given)
\* and no exclude pattern, and whose path matches no excluded directory.
C6_SelectsAsDocumented ==
    find.called =>
        \A e \in Entries :
            Visited(find.cmd, e) =>
                (Selects(find.cmd, e) <=> DocumentedSelection(find.args, e))

\* C7: with no patterns the command is exactly "find -type f" and selects
\* the regular files and nothing else; a pattern both included and excluded
\* selects no file whose name matches it.
C7_NoPatternsAndExclusionWins ==
    find.called =>
        /\ (\A k \in {"include_files", "exclude_files", "include_dirs", "exclude_dirs"} :
               ~Truthy(find.args[k]))
           => /\ find.cmd = <<"find", " ", "-type", " ", "f">>
              /\ \A e \in Entries : Selects(find.cmd, e) <=> e.type = "f"
        /\ \A p \in FilePatterns :
              (InList(find.args.include_files, p) /\ InList(find.args.exclude_files, p))
              => \A e \in Entries : NameMatches(p, e.name) => ~Selects(find.cmd, e)

\* a command built from a pattern that is both included and excluded, next
\* to another include pattern
C7_Witness ==
    /\ find.called
    /\ InList(find.args.include_files, "'*.py'")
    /\ InList(find.args.exclude_files, "'*.py'")
    /\ Len(find.args.exclude_files.v) = 2
    /\ \E e \in Entries : Visited(find.cmd, e) /\ NameMatches("'*.py'", e.name)
    /\ \A e \in Entries : NameMatches("'*.py'", e.name) => ~Selects(find.cmd, e)

---------------------------------------------------------------------------
(* External processes *)

\* ctx.run(command): the process ran and left the filesystem as after, or
\* exited non-zero, which ctx.run raises as UnexpectedExit.  tool names the
\* program, cmd is the command line
run(s, tool, cmd, hide, ok, after) ==
    LET e(result) == [k |-> "run", a |-> tool, b |-> result,
                      c |-> IF hide THEN "hide" ELSE "", cmd |-> cmd]
    IN  IF ok THEN Emit([s EXCEPT !.fs = after], e("ok"))
        ELSE Raise(Emit(s, e("failed")), "UnexpectedExit")

Sp == <<" ">>
Activate == <<"source", " ", ENV_NAME, "/bin/activate", " ", "&&", " ">>

\* the trace brackets what a task does between its call and its return or
\* raise
Enter(name, s) == Emit(s, Ev("call", name, "", ""))
Leave(name, r) == Emit(r, Ev(IF r.exc = "" THEN "return" ELSE "raise", name, r.exc, ""))

Check(s, fn, path) == Emit(s, Ev("check", fn, path, ""))

---------------------------------------------------------------------------
(* create_subdir, verify_directories *)

create_subdir(s, debug) ==
    LET s1 == Check(s, "isdir", SUBDIR)
    IN  IF isdir(s1.fs, SUBDIR)
        THEN Info(s1, "Subdirectory %s already exists", SUBDIR)
        ELSE LET \* mkdir fails when something is at the path already
                 s2 == run(s1, "mkdir", <<"mkdir", " ">> \o dirname, ~debug,
                           s1.fs[SUBDIR].kind = "none",
                           [s1.fs EXCEPT ![SUBDIR] = Directory])
             IN  IF s2.exc # "" THEN s2
                 ELSE Info(s2, "Create successfully subdirectory %s", SUBDIR)

\* the names of dir_names that are directories, in order
verify_directories(f, dir_names) == SelectSeq(dir_names, LAMBDA n : isdir(f, n))

---------------------------------------------------------------------------
(* The tasks *)

generate_files(s, debug) ==
    Leave("generate_files", LET t == Enter("generate_files", s) IN
        LET s1 == create_subdir(t, debug)
            s2 == write_file(s1, INIT_FILE, <<>>, "__init__.py")
            title == Title(Replace(dirname, "_", " "))
            headers == Substitute(HEADERS, title)
            s3 == write_file(s2, README_FILE, headers, "README")
            s4 == write_file(s3, REQ_FILE, Join(AsRopes(PACKAGES), <<"\n">>),
                             "pip requirements")
            full_path == <<"{working_dir}", "/">> \o dirname
            s5 == write_file(s4, PYLINTRC_FILE,
                             Strip(dedent(Format(PYLINTRC_CONTENT, full_path))),
                             "pylint resource control")
        IN  IF s1.exc # "" THEN s1
            ELSE IF s2.exc # "" THEN s2
            ELSE IF s3.exc # "" THEN s3
            ELSE IF s4.exc # "" THEN s4
            ELSE s5)

env_no_return(s, debug, venv_ok, pip_ok) ==
    Leave("env", LET t == Enter("env", s) IN
        LET s0 == Check(t, "isdir", ENV_NAME)
            s1 == IF isdir(s0.fs, ENV_NAME)
                  THEN Info(s0, "Directory %s already exists.", ENV_NAME) ELSE s0
            s2 == run(s1, "venv", <<"python", " ", "-m", " ", "venv", " ", ENV_NAME>>,
                      ~debug, venv_ok /\ s1.fs[ENV_NAME].kind = "none",
                      [s1.fs EXCEPT ![ENV_NAME] = Directory])
            s3 == Info(s2, "Create successfully virtual environment %s.", ENV_NAME)
            s4 == run(s3, "pip upgrade",
                      Activate \o <<"pip", " ", "install", " ", "--upgrade", " ", "pip">>,
                      ~debug, pip_ok, s3.fs)
        IN  IF s2.exc # "" THEN s2
            ELSE IF s4.exc # "" THEN s4
            ELSE Info(s4, "Update successfully pip.", ""))

\* venv_ok, pip_ok: whether python -m venv and pip install --upgrade pip
\* succeed; venv cannot succeed over a file named env
env(s, debug, venv_ok, pip_ok) ==
    Leave("env", LET t == Enter("env", s) IN
        LET s1 == Check(t, "isdir", ENV_NAME)
            s2 == run(s1, "venv", <<"python", " ", "-m", " ", "venv", " ", ENV_NAME>>,
                      ~debug, venv_ok /\ s1.fs[ENV_NAME].kind = "none",
                      [s1.fs EXCEPT ![ENV_NAME] = Directory])
            s3 == Info(s2, "Create successfully virtual environment %s.", ENV_NAME)
            s4 == run(s3, "pip upgrade",
                      Activate \o <<"pip", " ", "install", " ", "--upgrade", " ", "pip">>,
                      ~debug, pip_ok, s3.fs)
        IN  IF isdir(s1.fs, ENV_NAME)
            THEN Info(s1, "Directory %s already exists.", ENV_NAME)
            ELSE IF s2.exc # "" THEN s2
            ELSE IF s4.exc # "" THEN s4
            ELSE Info(s4, "Update successfully pip.", ""))

\* pip_ok: whether pip install -r succeeds; it cannot without the
\* requirements file
install(s, debug, pip_ok) ==
    Leave("install", LET t == Enter("install", s) IN
        LET s1 == Check(t, "isdir", ENV_NAME)
            s2 == run(s1, "pip install",
                      Activate \o <<"pip", " ", "install", " ", "-r", " ", REQ_FILE>>,
                      ~debug, pip_ok /\ isfile(s1.fs, REQ_FILE), s1.fs)
        IN  IF ~isdir(s1.fs, ENV_NAME)
            THEN Info(s1, "Virtual environment %s does not exist.", ENV_NAME)
            ELSE IF s2.exc # "" THEN s2
            ELSE Info(s2, "Install successfully packages from file %s.", REQ_FILE))

develop_swallows(s, debug, venv_ok, upgrade_ok, install_ok) ==
    Leave("develop", LET t == Enter("develop", s) IN
        LET s1 == generate_files(t, debug)
            s2 == env([s1 EXCEPT !.exc = ""], debug, venv_ok, upgrade_ok)
        IN  install([s2 EXCEPT !.exc = ""], debug, install_ok))

develop(s, debug, venv_ok, upgrade_ok, install_ok) ==
    Leave("develop", LET t == Enter("develop", s) IN
        LET s1 == generate_files(t, debug)
            s2 == env(s1, debug, venv_ok, upgrade_ok)
        IN  IF s1.exc # "" THEN s1
            ELSE IF s2.exc # "" THEN s2
            ELSE install(s2, debug, install_ok))

BuildEvent(s) == Emit(s, Ev("build_find_command", "", "", ""))

autotest(s, warnings, ok) ==
    Leave("autotest", LET t == Enter("autotest", s) IN
        LET s1 == Check(t, "isdir", "tests")
            tests_dirs == verify_directories(s1.fs, TESTS_DIRS)
            find_cmd == build_find_command(Some(INCLUDE_FILES), None, None,
                                           Some(EXCLUDE_DIRS))
            disable_warnings ==
                IF ~warnings THEN <<" ", "--disable-pytest-warnings">> ELSE <<>>
            test_dirs_str == Join(AsRopes(tests_dirs), Sp)
            cmd == Strip(find_cmd
                         \o <<" ", "|", " ", "entr", " ", "-c", " ", "python", " ",
                              "-m", " ", "pytest", " ", "-v", " ">>
                         \o test_dirs_str \o Sp \o disable_warnings)
        IN  IF tests_dirs = <<>> THEN Info(s1, "No test directory.", "")
            ELSE run(BuildEvent(s1), "entr pytest", cmd, FALSE, ok, s1.fs))

\* find_ok: whether find | xargs echo exits zero; found: whether it printed
\* any file; ok: whether the tool run on the files exits zero
FindFiles(s, find_cmd, find_ok) ==
    run(BuildEvent(s), "find",
        find_cmd \o <<" ", "|", " ", "xargs", " ", "echo">>, TRUE, find_ok, s.fs)

analyse(s, find_ok, found, ok) ==
    Leave("analyse", LET t == Enter("analyse", s) IN
        LET find_cmd == build_find_command(Some(INCLUDE_FILES), Some(EXCLUDE_FILES),
                                           None, Some(EXCLUDE_DIRS))
            s1 == FindFiles(t, find_cmd, find_ok)
            s2 == Info(s1, "Analyzing %s files...", "")
        IN  IF s1.exc # "" THEN s1
            ELSE IF ~found THEN Info(s1, "No files to analyse.", "")
            ELSE run(s2, "pylint",
                     <<"python", " ", "-m", " ", "pylint", " ", "{files}">>,
                     FALSE, ok, s2.fs))

autoformat(s, find_ok, found, ok) ==
    Leave("autoformat", LET t == Enter("autoformat", s) IN
        LET find_cmd == build_find_command(Some(INCLUDE_FILES), None, None,
                                           Some(EXCLUDE_DIRS))
            s1 == FindFiles(t, find_cmd, find_ok)
        IN  IF s1.exc # "" THEN s1
            ELSE IF ~found THEN Info(s1, "No files to format.", "")
            ELSE run(s1, "black", <<"black", " ", "{files}">>, FALSE, ok, s1.fs))

fixtures(s, whole, warnings, ok) ==
    Leave("fixtures", LET t == Enter("fixtures", s) IN
        LET disable_warnings ==
                IF ~warnings THEN <<" ", "--disable-pytest-warnings">> ELSE <<>>
            option == IF whole THEN "--fixtures" ELSE "--fixtures-per-test"
        IN  run(t, "pytest",
                Strip(<<"python", " ", "-m", " ", "pytest", " ", option, " ">>
                      \o disable_warnings),
                FALSE, ok, t.fs))

\* os.remove(conf_file)
remove(s, path) == Emit([s EXCEPT !.fs[path] = Absent], Ev("remove", path, "", ""))

\* "finally": the cleanup runs whether the type checker raised or not, and
\* the exception, if any, propagates after it
MypyCleanup(s) ==
    LET s1 == Check(s, "isfile", MYPY_FILE)
    IN  IF isfile(s1.fs, MYPY_FILE)
        THEN Info(remove(s1, MYPY_FILE), "Remove successfully file mypy config %s.",
                  MYPY_FILE)
        ELSE s1

check_types_no_cleanup(s, find_ok, found, ok) ==
    Leave("check_types", LET t == Enter("check_types", s) IN
        LET find_cmd == build_find_command(Some(INCLUDE_FILES), Some(EXCLUDE_FILES),
                                           None, Some(EXCLUDE_DIRS))
            s1 == FindFiles(t, find_cmd, find_ok)
            s2 == write_file(s1, MYPY_FILE, Strip(dedent(MYPY_CONTENT)), "mypy config")
            s3 == Info(s2, "Checking %s files...", "")
            s4 == run(s3, "mypy", <<"python", " ", "-m", " ", "mypy", " ", "{files}">>,
                      FALSE, ok, s3.fs)
        IN  IF s1.exc # "" THEN s1
            ELSE IF ~found THEN Info(s1, "No files to check types.", "")
            ELSE IF s2.exc # "" THEN s2
            ELSE IF s4.exc # "" THEN s4
            ELSE MypyCleanup(s4))

check_types(s, find_ok, found, ok) ==
    Leave("check_types", LET t == Enter("check_types", s) IN
        LET find_cmd == build_find_command(Some(INCLUDE_FILES), Some(EXCLUDE_FILES),
                                           None, Some(EXCLUDE_DIRS))
            s1 == FindFiles(t, find_cmd, find_ok)
            s2 == write_file(s1, MYPY_FILE, Strip(dedent(MYPY_CONTENT)), "mypy config")
            s3 == Info(s2, "Checking %s files...", "")
            s4 == run(s3, "mypy", <<"python", " ", "-m", " ", "mypy", " ", "{files}">>,
                      FALSE, ok, s3.fs)
        IN  IF s1.exc # "" THEN s1
            ELSE IF ~found THEN Info(s1, "No files to check types.", "")
            ELSE IF s2.exc # "" THEN s2
            ELSE MypyCleanup(s4))

\* str(depth) for the depths of Depths
Digits(n) == CASE n = 0 -> "0" [] n = 1 -> "1" [] n = 2 -> "2" [] OTHER -> "3"

tree(s, depth, ok) ==
    Leave("tree", LET t == Enter("tree", s) IN
        LET exclude_dirs == <<ENV_NAME, "*pycache*">>
            exclude_dirs_str == Join(AsRopes(exclude_dirs), <<"|">>)
            tree_cmd == <<"tree", " ", "-vI", " ", "'">> \o exclude_dirs_str
                        \o <<"'", " ", "--dirsfirst", " ">>
        IN  run(t, "tree",
                IF depth > 0 THEN tree_cmd \o <<"-L", " ", Digits(depth)>> ELSE tree_cmd,
                FALSE, ok, t.fs))

clean_unguarded(s) ==
    Leave("clean", LET t == Enter("clean", s) IN
        LET s1 == Check(t, "isdir", ENV_NAME)
            s2 == Info(run(s1, "rm -rf", <<"rm", " ", "-rf", " ", ENV_NAME>>, FALSE, TRUE,
                           [s1.fs EXCEPT ![ENV_NAME] = Absent]),
                       "Clean successfully virtual environment %s", ENV_NAME)
            s3 == Check(s2, "isfile", PYLINTRC_FILE)
        IN  IF ~isfile(s3.fs, PYLINTRC_FILE)
            THEN Info(s3, "File pylint resource control %s does not exist.",
                      PYLINTRC_FILE)
            ELSE Info(run(s3, "rm", <<"rm", " ", PYLINTRC_FILE>>, FALSE, TRUE,
                          [s3.fs EXCEPT ![PYLINTRC_FILE] = Absent]),
                      "Clean successfully file pylint resource control %s",
                      PYLINTRC_FILE))

\* rm -rf env and rm .pylintrc on a regular file always succeed
clean(s) ==
    Leave("clean", LET t == Enter("clean", s) IN
        LET s1 == Check(t, "isdir", ENV_NAME)
            s2 == IF ~isdir(s1.fs, ENV_NAME)
                  THEN Info(s1, "Virtual environment %s does not exist.", ENV_NAME)
                  ELSE Info(run(s1, "rm -rf", <<"rm", " ", "-rf", " ", ENV_NAME>>,
                                FALSE, TRUE, [s1.fs EXCEPT ![ENV_NAME] = Absent]),
                            "Clean successfully virtual environment %s", ENV_NAME)
            s3 == Check(s2, "isfile", PYLINTRC_FILE)
        IN  IF ~isfile(s3.fs, PYLINTRC_FILE)
            THEN Info(s3, "File pylint resource control %s does not exist.",
                      PYLINTRC_FILE)
            ELSE Info(run(s3, "rm", <<"rm", " ", PYLINTRC_FILE>>, FALSE, TRUE,
                          [s3.fs EXCEPT ![PYLINTRC_FILE] = Absent]),
                      "Clean successfully file pylint resource control %s",
                      PYLINTRC_FILE))

---------------------------------------------------------------------------
(* Spec: the tasks, invoked one after another on the working root *)

DirNames == { <<"m", "y", "_", "p", "r", "o", "j", "e", "c", "t">> }
Depths == {0, DEPTH}

\* the entries the working root may hold before the first task
InitialKinds(p) ==
    CASE p = README_FILE -> {Absent}
      [] p \in {REQ_FILE, INIT_FILE} -> {Absent, File(OLD)}
      [] p \in {"tests", ENV_NAME} -> {Absent, Directory}
      [] OTHER -> {Absent, File(OLD), Directory}

Init ==
    /\ dirname \in DirNames
    /\ fs \in {f \in [Paths -> {Absent, File(OLD), Directory}] :
                 WellFormed(f) /\ \A p \in Paths : f[p] \in InitialKinds(p)}
    /\ pre = fs
    /\ call = NoCall
    /\ trace = <<>>
    /\ raised = ""
    /\ find = NoFind

\* find prints the initializer when it is there
Found == IF isfile(fs, INIT_FILE) THEN {TRUE} ELSE BOOLEAN

GenerateFiles ==
    \E debug \in BOOLEAN :
        Invoke([op |-> "generate_files"], generate_files(Begin(fs), debug))

Env ==
    \E debug, venv_ok, pip_ok \in BOOLEAN :
        Invoke([op |-> "env"], env(Begin(fs), debug, venv_ok, pip_ok))

Install ==
    \E debug, pip_ok \in BOOLEAN :
        Invoke([op |-> "install"], install(Begin(fs), debug, pip_ok))

Develop ==
    \E debug, venv_ok, upgrade_ok, install_ok \in BOOLEAN :
        Invoke([op |-> "develop"],
               develop(Begin(fs), debug, venv_ok, upgrade_ok, install_ok))

Autotest ==
    \E warnings, ok \in BOOLEAN :
        Invoke([op |-> "autotest"], autotest(Begin(fs), warnings, ok))

Analyse ==
    \E find_ok, ok \in BOOLEAN, found \in Found :
        Invoke([op |-> "analyse"], analyse(Begin(fs), find_ok, found, ok))

Autoformat ==
    \E find_ok, ok \in BOOLEAN, found \in Found :
        Invoke([op |-> "autoformat"], autoformat(Begin(fs), find_ok, found, ok))

Fixtures ==
    \E whole, warnings, ok \in BOOLEAN :
        Invoke([op |-> "fixtures"], fixtures(Begin(fs), whole, warnings, ok))

CheckTypes ==
    \E find_ok, ok \in BOOLEAN, found \in Found :
        Invoke([op |-> "check_types"],
               check_types(Begin(fs), find_ok, found, ok))

Tree ==
    \E depth \in Depths, ok \in BOOLEAN :
        Invoke([op |-> "tree"], tree(Begin(fs), depth, ok))

Clean == Invoke([op |-> "clean"], clean(Begin(fs)))

Next ==
    \/ GenerateFiles
    \/ Env
    \/ Install
    \/ Develop
    \/ Autotest
    \/ Analyse
    \/ Autoformat
    \/ Fixtures
    \/ CheckTypes
    \/ Tree
    \/ Clean

Spec == Init /\ [][Next]_vars

---------------------------------------------------------------------------
(* Claims about the tasks (Spec) *)

Did(op) == call.op = op
Tasks == {"generate_files", "env", "install", "autotest", "analyse", "autoformat",
          "fixtures", "check_types", "tree", "clean"}

Indices(k) == {i \in DOMAIN trace : trace[i].k = k}
RunsOf(tool) == {i \in Indices("run") : trace[i].a = tool}
NRuns == Cardinality(Indices("run"))
LogsOf(message, subject) ==
    {i \in Indices("log") : trace[i].a = message /\ trace[i].b = subject}
Called(name) == \E i \in Indices("call") : trace[i].a = name
Returned(name) == \E i \in Indices("return") : trace[i].a = name

\* C3 as stated: whichever way check_types ends, no mypy.ini is left in the
\* working root.
C3_NeverLeftBehind == Did("check_types") => fs[MYPY_FILE].kind = "none"

\* C3 amended: check_types leaves no mypy.ini behind when none was there as
\* it started, and none once the type checker was started, whether the type
\* checker succeeds or fails.
C3_WrittenFileRemoved ==
    Did("check_types") =>
        /\ pre[MYPY_FILE].kind = "none" => fs[MYPY_FILE].kind = "none"
        /\ RunsOf("mypy") # {} => fs[MYPY_FILE].kind = "none"

\* the type checker failed after check_types wrote the file, and the file
\* is gone
C3_Witness ==
    /\ Did("check_types")
    /\ pre[MYPY_FILE].kind = "none"
    /\ LogsOf("Create successfully file %s", MYPY_FILE) # {}
    /\ \E i \in RunsOf("mypy") : trace[i].b = "failed"
    /\ raised = "UnexpectedExit"
    /\ LogsOf("Remove successfully file mypy config %s.", MYPY_FILE) # {}
    /\ fs[MYPY_FILE].kind = "none"

\* C10 as stated: a mypy.ini that was there before check_types started is
\* not overwritten and is still there, unchanged, after the task ends.
C10_PreexistingKept ==
    (Did("check_types") /\ pre[MYPY_FILE].kind = "file") =>
        /\ LogsOf("Create successfully file %s", MYPY_FILE) = {}
        /\ fs[MYPY_FILE] = pre[MYPY_FILE]

\* C10 amended: a mypy.ini that was there before check_types started is not
\* overwritten; it is removed by the cleanup once the type checker was
\* started, and is kept unchanged only when the task ends before that.
C10_PreexistingNotOverwrittenButRemoved ==
    (Did("check_types") /\ pre[MYPY_FILE].kind = "file") =>
        /\ LogsOf("Create successfully file %s", MYPY_FILE) = {}
        /\ \A p \in Paths \ {MYPY_FILE} : fs[p] = pre[p]
        /\ RunsOf("mypy") # {} =>
              /\ LogsOf("File %s already exists", MYPY_FILE) # {}
              /\ Indices("remove") # {}
              /\ fs[MYPY_FILE] = Absent
        /\ RunsOf("mypy") = {} => fs[MYPY_FILE] = pre[MYPY_FILE]

\* the type checker succeeded beside a mypy.ini that was there before, and
\* the file is gone
C10_Witness ==
    /\ Did("check_types")
    /\ pre[MYPY_FILE] = File(OLD)
    /\ \E i \in RunsOf("mypy") : trace[i].b = "ok"
    /\ raised = ""
    /\ fs[MYPY_FILE] = Absent

SubTasks == <<"generate_files", "env", "install">>
\* the sub-tasks develop called, in order
SubCalls ==
    LET F[i \in 0..Len(trace)] ==
            IF i = 0 THEN <<>>
            ELSE IF trace[i].k = "call" /\ trace[i].a # "develop"
                 THEN Append(F[i - 1], trace[i].a)
                 ELSE F[i - 1]
    IN F[Len(trace)]

\* C4: develop calls generate_files, env, install in that order, each at
\* most once; a step is started exactly when every earlier step returned
\* without raising (an early return does not abort the chain), and after a
\* step raised nothing more is called and no external process is run.
C4_DevelopChain ==
    Did("develop") =>
        /\ SubCalls = SubSeq(SubTasks, 1, Len(SubCalls))
        /\ Called("generate_files")
        /\ Called("env") <=> Returned("generate_files")
        /\ Called("install") <=> (Returned("generate_files") /\ Returned("env"))
        /\ \A i \in Indices("raise") :
              \A j \in DOMAIN trace :
                  j > i => trace[j].k \notin {"call", "run", "write_file", "log"}
        /\ raised = "" <=> Returned("develop")

\* both earlier steps returned early (the sub-directory and the environment
\* directory were there) and install was started and ran pip
C4_Witness ==
    /\ Did("develop")
    /\ LogsOf("Subdirectory %s already exists", SUBDIR) # {}
    /\ LogsOf("Directory %s already exists.", ENV_NAME) # {}
    /\ NRuns = 1
    /\ RunsOf("pip install") # {}
    /\ SubCalls = SubTasks

\* C5 as stated: every task makes exactly one external-process call, and
\* none before a gated write of the same task.
C5_ExactlyOneRun ==
    call.op \in Tasks =>
        /\ NRuns = 1
        /\ \A i \in Indices("run"), j \in Indices("write_file") : j < i

\* C5 amended: every task makes at most two external-process calls: exactly
\* one in fixtures and tree; none or one in generate_files, install and
\* autotest; one or two in analyse, autoformat and check_types; none, one or
\* two in env and clean.  None is made exactly on the early returns of env,
\* install and autotest.  The filter builder is invoked before every
\* external-process call of its task; gated writes happen only in
\* generate_files, after its mkdir, and in check_types, between its two
\* calls.
C5_RunCounts ==
    call.op \in Tasks =>
        /\ NRuns <= 2
        /\ call.op \in {"fixtures", "tree"} => NRuns = 1
        /\ call.op \in {"generate_files", "install", "autotest"} => NRuns <= 1
        /\ call.op \in {"analyse", "autoformat", "check_types"} => NRuns >= 1
        /\ Did("env") => (NRuns = 0 <=> isdir(pre, ENV_NAME))
        /\ Did("install") => (NRuns = 0 <=> ~isdir(pre, ENV_NAME))
        /\ Did("autotest") => (NRuns = 0 <=> ~isdir(pre, "tests"))
        /\ \A i \in Indices("build_find_command"), j \in Indices("run") : i < j
        /\ Indices("write_file") # {} => call.op \in {"generate_files", "check_types"}
        /\ Did("generate_files") =>
              \A i \in Indices("run"), j \in Indices("write_file") : i < j
        /\ Did("check_types") =>
              \A j \in Indices("write_file") :
                  /\ \E i \in RunsOf("find") : i < j
                  /\ \A i \in RunsOf("mypy") : j < i

\* check_types ran find, wrote the configuration file, then ran the type
\* checker: two external-process calls, one of them before the gated write
C5_Witness ==
    /\ Did("check_types")
    /\ NRuns = 2
    /\ \E i \in RunsOf("find"), j \in Indices("write_file"), k \in RunsOf("mypy") :
          i < j /\ j < k

DoesNotExist ==
    {i \in Indices("log") :
        trace[i].a \in {"Virtual environment %s does not exist.",
                        "File pylint resource control %s does not exist."}}

\* C8: clean with neither the env directory nor the .pylintrc file reports
\* "does not exist" once for each, runs no external process and leaves the
\* filesystem as it was; rm -rf env is run exactly when env is a directory
\* and rm .pylintrc exactly when .pylintrc is a regular file.
C8_CleanNothingToClean ==
    Did("clean") =>
        /\ (~isdir(pre, ENV_NAME) /\ ~isfile(pre, PYLINTRC_FILE)) =>
              /\ Cardinality(LogsOf("Virtual environment %s does not exist.",
                                    ENV_NAME)) = 1
              /\ Cardinality(LogsOf("File pylint resource control %s does not exist.",
                                    PYLINTRC_FILE)) = 1
              /\ Cardinality(DoesNotExist) = 2
              /\ NRuns = 0
              /\ fs = pre
              /\ raised = ""
        /\ RunsOf("rm -rf") # {} <=> isdir(pre, ENV_NAME)
        /\ RunsOf("rm") # {} <=> isfile(pre, PYLINTRC_FILE)
        /\ NRuns = Cardinality(RunsOf("rm -rf")) + Cardinality(RunsOf("rm"))

\* clean ran on a working root with neither env nor .pylintrc
C8_Witness ==
    /\ Did("clean")
    /\ pre[ENV_NAME].kind = "none"
    /\ pre[PYLINTRC_FILE].kind = "none"
    /\ Cardinality(DoesNotExist) = 2
    /\ NRuns = 0

MyProject == <<"m", "y", "_", "p", "r", "o", "j", "e", "c", "t">>
Scaffold == {SUBDIR, INIT_FILE, README_FILE, REQ_FILE, PYLINTRC_FILE}

\* C9: generate_files in a working root named my_project that holds none of
\* the scaffold entries yields the sub-directory, an empty __init__.py in
\* it, a README.md whose first line is "# My Project" and a requirements.txt
\* with the default packages in order, one per newline-terminated line; the
\* sub-directory is made before the initializer is written.
C9_Scaffold ==
    (Did("generate_files") /\ dirname = MyProject
        /\ \A p \in Scaffold : pre[p].kind = "none") =>
        /\ raised = ""
        /\ fs[SUBDIR] = Directory
        /\ fs[INIT_FILE] = File(<<>>)
        /\ fs[README_FILE].kind = "file"
        /\ FirstLine(fs[README_FILE].content) =
              <<"#", " ", "M", "y", " ", "P", "r", "o", "j", "e", "c", "t">>
        /\ fs[REQ_FILE] =
              File(<<"coloredlogs", "\n", "decorator", "\n", "fabric", "\n", "black", "\n",
                     "pylint", "\n", "pytest", "\n", "mypy", "\n">>)
        /\ \E i \in RunsOf("mkdir") :
              /\ trace[i].b = "ok"
              /\ \A j \in LogsOf("Create successfully file %s", INIT_FILE) : i < j
        /\ LogsOf("Create successfully file %s", INIT_FILE) # {}

\* generate_files ran on an empty working root named my_project
C9_Witness ==
    /\ Did("generate_files")
    /\ dirname = MyProject
    /\ \A p \in Paths : pre[p].kind = "none"
    /\ fs[README_FILE].kind = "file"
    /\ fs[PYLINTRC_FILE].kind = "file"

=============================================================================
